---- MODULE Spec2Model ----
(***************************************************************************)
(* NorNet Edge netperfmeter experiment: the launcher (launcher.py), which  *)
(* supervises one measurement worker per measurement_id from a stream of   *)
(* modem metadata, and the worker (netperfmeter.py), which runs the        *)
(* measure / compress / publish / sleep cycle until a stop flag is seen.   *)
(*                                                                         *)
(* Two specifications share the variables: Spec is the launcher's receive  *)
(* loop with its child processes, WorkerSpec is one worker process with    *)
(* the staging and results directories.                                    *)
(***************************************************************************)
EXTENDS Integers, Sequences, FiniteSets, TLC

(***************************************************************************)
(* Bounds of the model.                                                    *)
(***************************************************************************)
\* number of worker processes the launcher may start in one run
MaxSpawn == 2
\* number of measurement cycles one worker may begin
MaxCycles == 2
\* size of a compressed artifact, in blocks written by one copy
FileChunks == 2

(***************************************************************************)
(* Python values: None, str (a sequence of one-character strings), int.    *)
(***************************************************************************)
PyNone == [t |-> "none"]
PyStr(s) == [t |-> "str", v |-> s]
PyInt(n) == [t |-> "int", v |-> n]

\* Python's == on the values above
PyEq(a, b) ==
    IF a.t # b.t THEN FALSE
    ELSE IF a.t = "none" THEN TRUE
    ELSE a.v = b.v

DigitChars == <<"0", "1", "2", "3", "4", "5", "6", "7", "8", "9">>

RECURSIVE IntToStr(_)
\* decimal digits of a non-negative int
IntToStr(n) ==
    IF n < 10 THEN <<DigitChars[n + 1]>>
    ELSE IntToStr(n \div 10) \o <<DigitChars[(n % 10) + 1]>>

\* Python's str() on a JSON scalar
str(x) ==
    IF x.t = "str" THEN x
    ELSE IF x.t = "int" THEN PyStr(IntToStr(x.v))
    ELSE PyStr(<<"N", "o", "n", "e">>)

\* s[0:3] and s[3:] on a Python str
SliceTo3(s) == PyStr(SubSeq(s.v, 1, IF Len(s.v) < 3 THEN Len(s.v) ELSE 3))
SliceFrom3(s) == PyStr(SubSeq(s.v, 4, Len(s.v)))

(***************************************************************************)
(* launcher.py: constants and configuration                                *)
(***************************************************************************)
IS_ROAMING_AUTHORIZED == FALSE

\* configuration["mcc"], configuration["mnc"], configuration["measurement_id"]
ConfigMcc == PyStr(<<"2", "4", "2">>)
ConfigMnc == PyStr(<<"0", "1">>)
ConfigMeasurementId == 7
Iccid1 == PyStr(<<"8", "9", "4", "7">>)
Iccid2 == PyStr(<<"8", "9", "4", "8">>)
\* configuration["iccid"], None when the key is missing
ConfigIccids == {PyNone, Iccid1}

(***************************************************************************)
(* The metadata stream.  A message is the bytes one socket.recv() returns: *)
(* either bytes that are not UTF-8, or text, given here already split at   *)
(* the first blank into its parts (one part when there is no blank).  A    *)
(* topic is the sequence of its dot-separated segments; a payload is text  *)
(* that is not JSON, or the JSON value it denotes.                         *)
(***************************************************************************)
TopicPrefix == <<"MONROE", "META", "DEVICE", "MODEM">>
TopicUpdate == PyStr(TopicPrefix \o <<"1", "UPDATE">>)
TopicConnectivity == PyStr(TopicPrefix \o <<"1", "CONNECTIVITY">>)
TopicOther == PyStr(<<"MONROE", "META", "NODE", "SENSOR", "UPDATE">>)
Topics == {TopicUpdate, TopicConnectivity, TopicOther}

IfWwan0 == PyStr(<<"w", "w", "a", "n", "0">>)
IfWwan1 == PyStr(<<"w", "w", "a", "n", "1">>)
IfEmpty == PyStr(<<>>)
Home == PyStr(<<"2", "4", "2", "0", "1">>)
OtherMnc == PyStr(<<"2", "4", "2", "0", "2">>)
OtherMcc == PyStr(<<"2", "4", "0", "0", "1">>)

FieldNames == {"InterfaceName", "IMSIMCCMNC", "NWMCCMNC", "ICCID"}
\* the values a field may carry; Absent stands for a missing key
Absent == [t |-> "absent"]
FieldValues(f) ==
    CASE f = "InterfaceName" -> {Absent, PyNone, IfEmpty, IfWwan0, IfWwan1}
      [] f = "IMSIMCCMNC" -> {Absent, PyInt(24201), OtherMnc, OtherMcc}
      [] f = "NWMCCMNC" -> {Absent, Home, PyInt(24202)}
      [] f = "ICCID" -> {Absent, Iccid1, Iccid2}

\* JSON objects: a function from the keys to their values
JsonObjects ==
    {[t |-> "obj", v |-> o] :
        o \in {g \in [FieldNames -> UNION {FieldValues(f) : f \in FieldNames}] :
                  \A f \in FieldNames : g[f] \in FieldValues(f)}}

\* payload texts: not JSON, the JSON text null, a JSON array, a JSON object
PayloadNotJson == [t |-> "notjson"]
PayloadArray == [t |-> "array"]
Payloads == {PayloadNotJson, PyNone, PayloadArray} \cup JsonObjects

\* the payload of an event of the home network on wwan0, and of one roaming
HomeObject ==
    [t |-> "obj",
     v |-> [f \in FieldNames |->
              CASE f = "InterfaceName" -> IfWwan0
                [] f = "IMSIMCCMNC" -> PyInt(24201)
                [] f = "NWMCCMNC" -> Home
                [] f = "ICCID" -> Iccid1]]
RoamingObject == [HomeObject EXCEPT !.v["NWMCCMNC"] = PyInt(24202)]

\* every payload under the modem UPDATE topic; under the other topics the
\* payloads that would be selected under the UPDATE topic, and one not JSON
BadUtf8 == [utf8 |-> FALSE, parts |-> <<>>]
Messages ==
    {BadUtf8}
    \cup {[utf8 |-> TRUE, parts |-> <<tp>>] : tp \in Topics}
    \cup {[utf8 |-> TRUE, parts |-> <<TopicUpdate, p>>] : p \in Payloads}
    \cup {[utf8 |-> TRUE, parts |-> <<tp, p>>] :
              tp \in Topics \ {TopicUpdate},
              p \in {HomeObject, RoamingObject, PayloadNotJson}}
NoMessage == [utf8 |-> TRUE, parts |-> <<>>]

(***************************************************************************)
(* State.                                                                  *)
(*   iccid      launcher: the configured ICCID or None                     *)
(*   launcher   launcher: "recv" while the receive loop runs, "exit1"      *)
(*              after sys.exit(1), "traceback" after an uncaught exception *)
(*   processes  launcher: dict measurement_id -> pid of the Popen object   *)
(*   children   the processes started by subprocess.Popen, by pid, with    *)
(*              the --iface and -id arguments and the returncode (None     *)
(*              while running): those that run, and those that have ended  *)
(*              and whose Popen object the dict still holds                *)
(*   spawned    number of processes started so far; the last pid           *)
(*   observed_exit  history: returncode of the last worker the launcher    *)
(*              found stopped, None before                                 *)
(*   msg        the message handled by the last loop iteration             *)
(*   locals     launcher: topic, metadata and the metadata_* names of the  *)
(*              loop body, as the last iteration left them                 *)
(*   RUNNING    worker: the stop flag, False once a signal was handled     *)
(*   COMPRESS   worker: False when started with --uncompressed             *)
(*   wpc        worker: the statement the main loop is at                  *)
(*   cycle      worker: number of cycles begun; the cycle's timestamp      *)
(*   tmp_dir    the files in TMP_RESULT_DIRECTORY                          *)
(*   final_dir  the files in FINAL_RESULT_DIRECTORY with the number of     *)
(*              blocks each holds                                          *)
(*   todo       worker: what is left of the list the current for iterates  *)
(*   cur        worker: file_path inside safe_copy_file_to_dir             *)
(*   xz_invoked          history: XZ_BINARY was run                        *)
(*   measures_after_stop history: runs of NETPERFMETER_BINARY begun with   *)
(*                       the stop flag already set                         *)
(*   hist       history of the current cycle: whether it raised into the   *)
(*              except clause, the sleeps it has finished, and whether the *)
(*              cycle before it raised                                     *)
(***************************************************************************)
VARIABLES iccid, launcher, processes, children, spawned, observed_exit, msg,
          locals, hist,
          RUNNING, COMPRESS, wpc, cycle, tmp_dir, final_dir, todo, cur,
          xz_invoked, measures_after_stop

lvars == <<iccid, launcher, processes, children, spawned, observed_exit, msg,
           locals>>
wvars == <<RUNNING, COMPRESS, wpc, cycle, tmp_dir, final_dir, todo, cur,
           xz_invoked, measures_after_stop, hist>>
vars == <<lvars, wvars>>

measurement_id == ConfigMeasurementId

\* dictionaries and directories: functions from the keys present
EmptyDict == [k \in {} |-> 0]
Put(d, key, val) == [k \in DOMAIN d \cup {key} |-> IF k = key THEN val ELSE d[k]]
Del(d, key) == [k \in DOMAIN d \ {key} |-> d[k]]

(***************************************************************************)
(* launcher.py, one iteration of the receive loop, as functions of the     *)
(* message.                                                                *)
(***************************************************************************)
\* the names set to None at the top of the loop body
NoLocals ==
    [topic |-> PyNone, metadata |-> PyNone, metadata_if |-> PyNone,
     metadata_imsi_mcc_mnc |-> PyNone, metadata_nw_mcc_mnc |-> PyNone,
     metadata_iccid |-> PyNone, metadata_mcc |-> PyNone,
     metadata_mnc |-> PyNone]

\* variant: the names keep the values of the iteration before
ResetLocalsKeeps(l) == l

\* topic = None ... metadata_mnc = None
ResetLocals(l) == NoLocals

\* socket.recv().decode("utf-8") raises UnicodeDecodeError, outside any try
DecodeRaises(m) == ~m.utf8

\* topic = data[0]
ReadTopic(m) == m.parts[1]

\* metadata = json.loads(data[1]); not assigned when data[1] or the parse
\* raises
ReadMetadata(m) ==
    IF Len(m.parts) < 2 THEN ResetLocals(locals).metadata
    ELSE IF m.parts[2].t = "notjson" THEN ResetLocals(locals).metadata
    ELSE m.parts[2]

startswith(topic, prefix) ==
    /\ Len(topic.v) >= Len(prefix)
    /\ SubSeq(topic.v, 1, Len(prefix)) = prefix

\* variant: the suffix is not tested
endswithUpdateAny(topic) == TRUE

\* topic.endswith(".UPDATE")
endswithUpdate(topic) ==
    /\ Len(topic.v) >= 2
    /\ topic.v[Len(topic.v)] = "UPDATE"

\* the fields are read when topic and metadata are set and the topic is a
\* modem UPDATE
Considered(m) ==
    /\ ReadTopic(m).t # "none"
    /\ ReadMetadata(m).t # "none"
    /\ startswith(ReadTopic(m), TopicPrefix)
    /\ endswithUpdate(ReadTopic(m))

\* metadata[f] does not raise
HasKey(metadata, f) == metadata.t = "obj" /\ metadata.v[f].t # "absent"

\* The names after the reset and the two try blocks.  The second try block
\* assigns in the order InterfaceName, IMSIMCCMNC, NWMCCMNC, ICCID, mcc, mnc;
\* the first missing key leaves the later names as the reset left them.
Extract(m) ==
    LET start == ResetLocals(locals)
        md == ReadMetadata(m)
        ok1 == Considered(m) /\ HasKey(md, "InterfaceName")
        ok2 == ok1 /\ HasKey(md, "IMSIMCCMNC")
        ok3 == ok2 /\ HasKey(md, "NWMCCMNC")
        ok4 == ok3 /\ HasKey(md, "ICCID")
    IN  [topic |-> ReadTopic(m),
         metadata |-> md,
         metadata_if |->
             IF ok1 THEN md.v["InterfaceName"] ELSE start.metadata_if,
         metadata_imsi_mcc_mnc |->
             IF ok2 THEN str(md.v["IMSIMCCMNC"])
             ELSE start.metadata_imsi_mcc_mnc,
         metadata_nw_mcc_mnc |->
             IF ok3 THEN str(md.v["NWMCCMNC"]) ELSE start.metadata_nw_mcc_mnc,
         metadata_iccid |->
             IF ok4 THEN str(md.v["ICCID"]) ELSE start.metadata_iccid,
         metadata_mcc |->
             IF ok4 THEN SliceTo3(str(md.v["IMSIMCCMNC"]))
             ELSE start.metadata_mcc,
         metadata_mnc |->
             IF ok4 THEN SliceFrom3(str(md.v["IMSIMCCMNC"]))
             ELSE start.metadata_mnc]

is_metadata_if_none(x) == x.metadata_if.t = "none"

\* variant: the network code is not compared
SelectedMccOnly(x, cfg_iccid) ==
    /\ PyEq(ConfigMcc, x.metadata_mcc)
    /\ (PyEq(cfg_iccid, x.metadata_iccid) \/ cfg_iccid.t = "none")
    /\ x.metadata_if.t # "none"

\* variant: without a configured ICCID a fixed one is required
SelectedDefaultSim(x, cfg_iccid) ==
    /\ PyEq(ConfigMcc, x.metadata_mcc) /\ PyEq(ConfigMnc, x.metadata_mnc)
    /\ PyEq(IF cfg_iccid.t = "none" THEN Iccid1 ELSE cfg_iccid, x.metadata_iccid)
    /\ x.metadata_if.t # "none"

\* the condition guarding the roaming check and the supervision
Selected(x, cfg_iccid) ==
    LET are_mcc_mnc_equal_to_metadata ==
            PyEq(ConfigMcc, x.metadata_mcc) /\ PyEq(ConfigMnc, x.metadata_mnc)
        is_iccid_none_or_equal_to_metadata ==
            PyEq(cfg_iccid, x.metadata_iccid) \/ cfg_iccid.t = "none"
    IN  /\ are_mcc_mnc_equal_to_metadata
        /\ is_iccid_none_or_equal_to_metadata
        /\ ~is_metadata_if_none(x)

\* variant: only the country codes are compared
is_roaming_mcc_only(x) ==
    ~PyEq(SliceTo3(x.metadata_imsi_mcc_mnc), SliceTo3(x.metadata_nw_mcc_mnc))

is_roaming(x) == ~PyEq(x.metadata_imsi_mcc_mnc, x.metadata_nw_mcc_mnc)

\* variant: the tracked process is taken for exited without polling it
PolledAlways(procs, kids) == TRUE

\* processes[measurement_id].poll() is not None
Polled(procs, kids) == kids[procs[measurement_id]].returncode.t # "none"

\* variant: the entry is deleted whether or not the process has exited
AfterPollDeletes(procs, kids) == Del(procs, measurement_id)

\* variant: the entry of an exited process is kept
AfterPollKeeps(procs, kids) == procs

\* the dict after the poll: the entry of an exited process is deleted
AfterPoll(procs, kids) ==
    IF measurement_id \in DOMAIN procs /\ Polled(procs, kids)
    THEN Del(procs, measurement_id)
    ELSE procs

\* the returncode logged as stopped by the poll, else the one before
ObservedExit(procs, kids, before) ==
    IF measurement_id \in DOMAIN procs
       /\ kids[procs[measurement_id]].returncode.t # "none"
    THEN kids[procs[measurement_id]].returncode
    ELSE before

\* a process that has ended is gone once the dict no longer holds its Popen
\* object
Collect(kids, procs) ==
    [p \in {q \in DOMAIN kids :
               \/ kids[q].returncode.t = "none"
               \/ \E k \in DOMAIN procs : procs[k] = q} |-> kids[p]]

\* variant: a worker is also started when the interface has changed
MustStartOnChange(procs, kids, x) ==
    \/ measurement_id \notin DOMAIN procs
    \/ ~PyEq(kids[procs[measurement_id]].iface, x.metadata_if)

\* if measurement_id not in processes
MustStart(procs, kids, x) == measurement_id \notin DOMAIN procs

\* variant: the processes that run are terminated when the launcher exits
sys_exit_terminates(kids) ==
    [p \in DOMAIN kids |->
        IF kids[p].returncode.t = "none"
        THEN [kids[p] EXCEPT !.returncode = PyInt(1)]
        ELSE kids[p]]

\* sys.exit(1): the interpreter ends; no handler, no atexit function and no
\* Popen object signals or waits for a process the launcher has started
sys_exit(kids) == kids

\* subprocess.Popen(cmd): a running child with the command's arguments
Popen(iface, id) == [iface |-> iface, id |-> id, returncode |-> PyNone]

(***************************************************************************)
(* Actions of the launcher.                                                *)
(***************************************************************************)
\* the history of a cycle before the first cycle
NoHist == [failed |-> FALSE, sleeps |-> <<>>, prev_failed |-> FALSE]

\* the worker's variables before the worker has run
WorkerNotStarted ==
    /\ RUNNING = TRUE
    /\ COMPRESS = TRUE
    /\ wpc = "top"
    /\ cycle = 0
    /\ tmp_dir = {}
    /\ final_dir = EmptyDict
    /\ todo = {}
    /\ cur = PyNone
    /\ xz_invoked = FALSE
    /\ measures_after_stop = 0
    /\ hist = NoHist

LInit ==
    /\ iccid \in ConfigIccids
    /\ launcher = "recv"
    /\ processes = EmptyDict
    /\ children = EmptyDict
    /\ spawned = 0
    /\ observed_exit = PyNone
    /\ msg = NoMessage
    /\ locals = NoLocals
    /\ WorkerNotStarted

\* what one iteration on message m does to the launcher and its processes
Decide(m) ==
    IF DecodeRaises(m)
    THEN /\ launcher' = "traceback"
         /\ UNCHANGED <<processes, children, spawned, observed_exit>>
    ELSE LET x == Extract(m) IN
         IF ~Selected(x, iccid)
         THEN UNCHANGED <<launcher, processes, children, spawned,
                          observed_exit>>
         ELSE IF is_roaming(x) /\ ~IS_ROAMING_AUTHORIZED
         THEN /\ launcher' = "exit1"
              /\ children' = sys_exit(children)
              /\ UNCHANGED <<processes, spawned, observed_exit>>
         ELSE LET polled == AfterPoll(processes, children) IN
              /\ UNCHANGED launcher
              /\ observed_exit' =
                     IF polled = processes THEN observed_exit
                     ELSE ObservedExit(processes, children, observed_exit)
              /\ IF MustStart(polled, children, x)
                 THEN /\ spawned < MaxSpawn
                      /\ spawned' = spawned + 1
                      /\ children' =
                             Put(Collect(children, Del(polled, measurement_id)),
                                 spawned + 1,
                                 Popen(x.metadata_if, measurement_id))
                      /\ processes' =
                             Put(polled, measurement_id, spawned + 1)
                 ELSE /\ children' = Collect(children, polled)
                      /\ processes' = polled
                      /\ UNCHANGED spawned

\* one iteration of the while True loop on message m
Receive(m) ==
    /\ launcher = "recv"
    /\ msg' = m
    /\ locals' = IF DecodeRaises(m) THEN ResetLocals(locals) ELSE Extract(m)
    /\ Decide(m)
    /\ UNCHANGED <<iccid, wvars>>

\* a worker process ends, cleanly (0) or not (1); the launcher may be gone
WorkerExit(p, code) ==
    /\ p \in DOMAIN children
    /\ children[p].returncode.t = "none"
    /\ children' = [children EXCEPT ![p].returncode = PyInt(code)]
    /\ UNCHANGED <<iccid, launcher, processes, spawned, observed_exit, msg,
                   locals, wvars>>

Next ==
    \/ \E m \in Messages : Receive(m)
    \/ \E p \in 1..MaxSpawn, code \in {0, 1} : WorkerExit(p, code)

Spec == LInit /\ [][Next]_vars

(***************************************************************************)
(* netperfmeter.py: the worker.                                            *)
(*                                                                         *)
(* A staged file is named by the artifact kind, the cycle's timestamp and  *)
(* whether it carries the .xz suffix.  A file of the results directory is  *)
(* keyed by <<name, tmp>>, tmp being TRUE for "<name>.tmp", and holds the  *)
(* number of blocks written to it; it is complete with FileChunks blocks.  *)
(***************************************************************************)
Kinds == {"vector", "scalar"}
Artifact(kind, ts) == [kind |-> kind, ts |-> ts, xz |-> FALSE]
\* the name xz gives the compressed file
XzName(f) == [f EXCEPT !.xz = TRUE]

\* variant: the files that carry the .xz suffix are not listed
GlobInstanceRawOnly(dir) == {f \in dir : ~f.xz}

\* glob(f"{TMP_RESULT_DIRECTORY}/netperfmeter_{options.instance}_*")
GlobInstance(dir) == dir
\* glob(f"{TMP_RESULT_DIRECTORY}/netperfmeter_{options.instance}_*.xz")
GlobXz(dir) == {f \in dir : f.xz}

\* variant: while True
LoopConditionTrue == TRUE

\* while RUNNING is True
LoopCondition == RUNNING = TRUE

\* variant: the except clause falls through to the sleep of the interval
RaiseToInterval ==
    /\ wpc' = "sleep"
    /\ todo' = {}
    /\ cur' = PyNone
    /\ hist' = [hist EXCEPT !.failed = TRUE]

\* the except clause: the rest of the cycle is skipped
Raise ==
    /\ wpc' = "sleep_error"
    /\ todo' = {}
    /\ cur' = PyNone
    /\ hist' = [hist EXCEPT !.failed = TRUE]

WInit ==
    /\ iccid = PyNone
    /\ launcher = "recv"
    /\ processes = EmptyDict
    /\ children = EmptyDict
    /\ spawned = 0
    /\ observed_exit = PyNone
    /\ msg = NoMessage
    /\ locals = NoLocals
    /\ RUNNING = TRUE
    /\ COMPRESS \in BOOLEAN
    /\ wpc = "top"
    /\ cycle = 0
    /\ tmp_dir = {}
    /\ final_dir = EmptyDict
    /\ todo = {}
    /\ cur = PyNone
    /\ xz_invoked = FALSE
    /\ measures_after_stop = 0
    /\ hist = NoHist

\* the loop condition is evaluated; the timestamp of the cycle is taken
LoopTop ==
    /\ wpc = "top"
    /\ IF LoopCondition
       THEN /\ cycle < MaxCycles
            /\ cycle' = cycle + 1
            /\ wpc' = "resolve"
            /\ hist' = [failed |-> FALSE, sleeps |-> <<>>,
                        prev_failed |-> hist.failed]
       ELSE /\ wpc' = "exited"
            /\ UNCHANGED <<cycle, hist>>
    /\ UNCHANGED <<lvars, RUNNING, COMPRESS, tmp_dir, final_dir, todo, cur,
                   xz_invoked, measures_after_stop>>

\* get_network_interface_ip_address(options.iface, 4) returns or raises
Resolve ==
    /\ wpc = "resolve"
    /\ \E ok \in BOOLEAN :
          IF ok THEN wpc' = "measure" /\ UNCHANGED <<todo, cur, hist>>
          ELSE Raise
    /\ UNCHANGED <<lvars, RUNNING, COMPRESS, cycle, tmp_dir, final_dir,
                   xz_invoked, measures_after_stop>>

\* subprocess.check_output(cmd).decode("ascii"): the tool writes its vector
\* and scalar files and returns 0, or fails before or after writing them;
\* on success the files to compress are listed
Measure ==
    /\ wpc = "measure"
    /\ measures_after_stop' =
          IF RUNNING THEN measures_after_stop ELSE measures_after_stop + 1
    /\ \E outcome \in {"ok", "fail", "fail_after_writing"} :
          /\ tmp_dir' = IF outcome = "fail" THEN tmp_dir
                        ELSE tmp_dir \cup {Artifact(k, cycle) : k \in Kinds}
          /\ IF outcome = "ok"
             THEN /\ wpc' = "compress"
                  /\ todo' = GlobInstance(tmp_dir')
                  /\ UNCHANGED <<cur, hist>>
             ELSE Raise
    /\ UNCHANGED <<lvars, RUNNING, COMPRESS, cycle, final_dir, xz_invoked>>

\* xz --compress file_path exits non-zero when the file already has the .xz
\* suffix or the target name exists, and may fail otherwise
XzRefuses(f, dir) == f.xz \/ XzName(f) \in dir

\* one turn of the first for loop, or its end, where the second list is made
Compress ==
    /\ wpc = "compress"
    /\ IF todo = {}
       THEN /\ todo' = GlobXz(tmp_dir)
            /\ wpc' = "publish"
            /\ UNCHANGED <<tmp_dir, cur, xz_invoked, hist>>
       ELSE \E f \in todo, ok \in BOOLEAN :
              /\ xz_invoked' = TRUE
              /\ IF ok /\ ~XzRefuses(f, tmp_dir)
                 THEN /\ tmp_dir' = (tmp_dir \ {f}) \cup {XzName(f)}
                      /\ todo' = todo \ {f}
                      /\ UNCHANGED <<wpc, cur, hist>>
                 ELSE Raise /\ UNCHANGED tmp_dir
    /\ UNCHANGED <<lvars, RUNNING, COMPRESS, cycle, final_dir,
                   measures_after_stop>>

\* one turn of the second for loop enters safe_copy_file_to_dir, or its end
Publish ==
    /\ wpc = "publish"
    /\ IF todo = {}
       THEN wpc' = "sleep" /\ UNCHANGED <<todo, cur>>
       ELSE \E f \in todo :
              /\ cur' = f
              /\ todo' = todo \ {f}
              /\ wpc' = "copy2"
    /\ UNCHANGED <<lvars, RUNNING, COMPRESS, cycle, tmp_dir, final_dir,
                   xz_invoked, measures_after_stop, hist>>

\* variant: the copy is written under the final name
CopyTargetFinal(f) == <<f, FALSE>>

\* the name the copy is written to, and the name it is renamed to
CopyTarget(f) == <<f, TRUE>>
MoveTarget(f) == <<f, FALSE>>

\* shutil.copy2(source, tmp_file) opens the target, which is then empty
CopyOpen ==
    /\ wpc = "copy2"
    /\ \E ok \in BOOLEAN :
          IF ok
          THEN /\ final_dir' = Put(final_dir, CopyTarget(cur), 0)
               /\ wpc' = "copy2_write"
               /\ UNCHANGED <<todo, cur, hist>>
          ELSE Raise /\ UNCHANGED final_dir
    /\ UNCHANGED <<lvars, RUNNING, COMPRESS, cycle, tmp_dir, xz_invoked,
                   measures_after_stop>>

\* shutil.copy2 writes the next block, or returns after the last one
CopyWrite ==
    /\ wpc = "copy2_write"
    /\ IF final_dir[CopyTarget(cur)] < FileChunks
       THEN \E ok \in BOOLEAN :
              IF ok
              THEN /\ final_dir' =
                         [final_dir EXCEPT ![CopyTarget(cur)] = @ + 1]
                   /\ UNCHANGED <<wpc, todo, cur, hist>>
              ELSE Raise /\ UNCHANGED final_dir
       ELSE /\ wpc' = "move"
            /\ UNCHANGED <<final_dir, todo, cur, hist>>
    /\ UNCHANGED <<lvars, RUNNING, COMPRESS, cycle, tmp_dir, xz_invoked,
                   measures_after_stop>>

\* variant: a failure of the rename is not raised
MoveUnchecked ==
    /\ wpc = "move"
    /\ \E ok \in BOOLEAN :
          /\ final_dir' =
                IF ok
                THEN Put(Del(final_dir, CopyTarget(cur)), MoveTarget(cur),
                         final_dir[CopyTarget(cur)])
                ELSE final_dir
          /\ wpc' = "remove"
          /\ UNCHANGED <<todo, cur, hist>>
    /\ UNCHANGED <<lvars, RUNNING, COMPRESS, cycle, tmp_dir, xz_invoked,
                   measures_after_stop>>

\* shutil.move(tmp_file, destination_path): a rename inside the directory
Move ==
    /\ wpc = "move"
    /\ \E ok \in BOOLEAN :
          IF ok
          THEN /\ final_dir' =
                     Put(Del(final_dir, CopyTarget(cur)), MoveTarget(cur),
                         final_dir[CopyTarget(cur)])
               /\ wpc' = "remove"
               /\ UNCHANGED <<todo, cur, hist>>
          ELSE Raise /\ UNCHANGED final_dir
    /\ UNCHANGED <<lvars, RUNNING, COMPRESS, cycle, tmp_dir, xz_invoked,
                   measures_after_stop>>

\* variant: keep_source is True
RemoveKeepsSource ==
    /\ wpc = "remove"
    /\ wpc' = "publish"
    /\ cur' = PyNone
    /\ UNCHANGED <<lvars, RUNNING, COMPRESS, cycle, tmp_dir, final_dir, todo,
                   xz_invoked, measures_after_stop, hist>>

\* os.remove(source), keep_source being False; back to the for loop
Remove ==
    /\ wpc = "remove"
    /\ \E ok \in BOOLEAN :
          IF ok
          THEN /\ tmp_dir' = tmp_dir \ {cur}
               /\ wpc' = "publish"
               /\ cur' = PyNone
               /\ UNCHANGED <<todo, hist>>
          ELSE Raise /\ UNCHANGED tmp_dir
    /\ UNCHANGED <<lvars, RUNNING, COMPRESS, cycle, final_dir, xz_invoked,
                   measures_after_stop>>

\* time.sleep(options.interval * 60) returns after the interval, or raises
\* at once (OverflowError when the interval is beyond the range of the clock)
SleepInterval ==
    /\ wpc = "sleep"
    /\ \E ok \in BOOLEAN :
          IF ok
          THEN /\ wpc' = "top"
               /\ hist' = [hist EXCEPT !.sleeps = Append(@, "interval")]
               /\ UNCHANGED <<todo, cur>>
          ELSE Raise
    /\ UNCHANGED <<lvars, RUNNING, COMPRESS, cycle, tmp_dir, final_dir,
                   xz_invoked, measures_after_stop>>

\* time.sleep(SLEEP_ON_ERROR) returns
\* variant: the process ends after the sleep
SleepOnErrorExits ==
    /\ wpc = "sleep_error"
    /\ wpc' = "exited"
    /\ hist' = [hist EXCEPT !.sleeps = Append(@, "backoff")]
    /\ UNCHANGED <<lvars, RUNNING, COMPRESS, cycle, tmp_dir, final_dir, todo,
                   cur, xz_invoked, measures_after_stop>>

\* time.sleep(SLEEP_ON_ERROR) returns
SleepOnError ==
    /\ wpc = "sleep_error"
    /\ wpc' = "top"
    /\ hist' = [hist EXCEPT !.sleeps = Append(@, "backoff")]
    /\ UNCHANGED <<lvars, RUNNING, COMPRESS, cycle, tmp_dir, final_dir, todo,
                   cur, xz_invoked, measures_after_stop>>

\* variant: the handler ends the process where it is
signal_handler_exits ==
    /\ wpc \notin {"exited", "killed"}
    /\ RUNNING' = FALSE
    /\ wpc' = "exited"
    /\ UNCHANGED <<lvars, COMPRESS, cycle, tmp_dir, final_dir, todo, cur,
                   xz_invoked, measures_after_stop, hist>>

\* SIGINT or SIGTERM is delivered: the handler clears the flag and the
\* interrupted statement resumes
signal_handler ==
    /\ wpc \notin {"exited", "killed"}
    /\ RUNNING' = FALSE
    /\ UNCHANGED <<lvars, COMPRESS, wpc, cycle, tmp_dir, final_dir, todo, cur,
                   xz_invoked, measures_after_stop, hist>>

\* the process is killed (SIGKILL) wherever it is
Kill ==
    /\ wpc \notin {"exited", "killed"}
    /\ wpc' = "killed"
    /\ UNCHANGED <<lvars, RUNNING, COMPRESS, cycle, tmp_dir, final_dir, todo,
                   cur, xz_invoked, measures_after_stop, hist>>

\* the statements of the worker's program
WorkerStep ==
    \/ LoopTop
    \/ Resolve
    \/ Measure
    \/ Compress
    \/ Publish
    \/ CopyOpen
    \/ CopyWrite
    \/ Move
    \/ Remove
    \/ SleepInterval
    \/ SleepOnError

WNext ==
    \/ WorkerStep
    \/ signal_handler
    \/ Kill

WorkerSpec == WInit /\ [][WNext]_vars

\* every external step and sleep terminates
WorkerFairSpec == WorkerSpec /\ WF_vars(WorkerStep)

(***************************************************************************)
(* The stream's events, described from the message itself.                 *)
(***************************************************************************)
\* a decodable modem UPDATE message that carries the four fields
IsEvent(m) ==
    /\ m.utf8
    /\ Len(m.parts) = 2
    /\ m.parts[1] = TopicUpdate
    /\ m.parts[2].t = "obj"
    /\ \A f \in FieldNames : m.parts[2].v[f].t # "absent"

Field(m, f) == m.parts[2].v[f]
HasInterface(m) ==
    Field(m, "InterfaceName").t = "str" /\ Len(Field(m, "InterfaceName").v) > 0
SubscriberIsHome(m) == str(Field(m, "IMSIMCCMNC")).v = ConfigMcc.v \o ConfigMnc.v
SimMatches(m) == iccid.t = "none" \/ str(Field(m, "ICCID")).v = iccid.v
Roaming(m) == str(Field(m, "IMSIMCCMNC")).v # str(Field(m, "NWMCCMNC")).v

\* passes the interface, home-network and SIM checks
PassesChecks(m) ==
    IsEvent(m) /\ HasInterface(m) /\ SubscriberIsHome(m) /\ SimMatches(m)
MatchingEvent(m) == PassesChecks(m) /\ ~Roaming(m)
RoamingEvent(m) == PassesChecks(m) /\ Roaming(m)

Alive(p) == p \in DOMAIN children /\ children[p].returncode.t = "none"
TrackedAlive ==
    measurement_id \in DOMAIN processes /\ Alive(processes[measurement_id])

(***************************************************************************)
(* C1: in every reachable state of the launcher at most one worker process *)
(* per measurement_id is alive, and a worker is started only when the      *)
(* process tracked for its measurement_id is not alive.                    *)
(***************************************************************************)
AtMostOneLiveWorker ==
    /\ \A p, q \in DOMAIN children :
          (Alive(p) /\ Alive(q) /\ children[p].id = children[q].id) => p = q
    /\ \A p \in DOMAIN children :
          Alive(p) => (children[p].id \in DOMAIN processes
                       /\ processes[children[p].id] = p)

\* a second worker runs after the first has exited
RestartedWorkerAlive ==
    /\ spawned = 2
    /\ observed_exit.t # "none"
    /\ Alive(2)
    /\ DOMAIN children = {2}
    /\ processes[measurement_id] = 2

(***************************************************************************)
(* C2: a matching event handled while the tracked worker is alive starts   *)
(* no process and leaves the mapping unchanged; as this holds of every     *)
(* step, it holds of any number of consecutive matching events.            *)
(***************************************************************************)
EnsureRunningIdempotent ==
    [][(MatchingEvent(msg') /\ TrackedAlive /\ Receive(msg'))
          => /\ children' = children
             /\ processes' = processes
             /\ spawned' = spawned]_vars

\* a matching event for another interface was handled with the worker alive
MatchingEventWhileAlive ==
    /\ MatchingEvent(msg)
    /\ TrackedAlive
    /\ spawned = 1
    /\ children[1].iface # Field(msg, "InterfaceName")

(***************************************************************************)
(* C3: a matching event handled while no live worker is tracked (no        *)
(* handle, or the tracked process has exited with any status) starts       *)
(* exactly one process, with the event's interface name and the            *)
(* measurement_id, and the mapping then holds exactly the new handle.      *)
(***************************************************************************)
LaunchOrRestart ==
    [][(MatchingEvent(msg') /\ ~TrackedAlive /\ Receive(msg'))
          => /\ spawned' = spawned + 1
             /\ DOMAIN children' \ DOMAIN children = {spawned'}
             /\ children'[spawned'] =
                   [iface |-> Field(msg', "InterfaceName"),
                    id |-> measurement_id,
                    returncode |-> PyNone]
             /\ \A p \in DOMAIN children :
                   IF Alive(p)
                   THEN p \in DOMAIN children' /\ children'[p] = children[p]
                   ELSE p \notin DOMAIN children'
             /\ DOMAIN processes' = {measurement_id}
             /\ processes'[measurement_id] = spawned']_vars

\* a worker was started on the event's interface after a crash of the first
RestartedAfterCrash ==
    /\ MatchingEvent(msg)
    /\ spawned = 2
    /\ observed_exit = PyInt(1)
    /\ Alive(2)
    /\ children[2].iface = Field(msg, "InterfaceName")
    /\ processes[measurement_id] = 2

(***************************************************************************)
(* C4: an event that passes the interface, home-network and SIM checks and *)
(* whose subscriber network differs from its serving network makes the     *)
(* launcher exit with status 1 in that iteration, and no worker is         *)
(* started for it.                                                         *)
(***************************************************************************)
RoamingIsFatal ==
    [][(RoamingEvent(msg') /\ Receive(msg'))
          => /\ launcher' = "exit1"
             /\ children' = children
             /\ processes' = processes
             /\ spawned' = spawned]_vars

\* the launcher has exited on a roaming event without any worker
ExitedOnRoaming ==
    /\ RoamingEvent(msg)
    /\ launcher = "exit1"
    /\ spawned = 0
    /\ children = EmptyDict

(***************************************************************************)
(* C5: a message that is not UTF-8, has no payload part or whose payload   *)
(* is not JSON does not end the launcher, starts no worker and leaves the  *)
(* mapping unchanged.                                                      *)
(***************************************************************************)
Malformed(m) ==
    \/ ~m.utf8
    \/ Len(m.parts) = 1
    \/ (Len(m.parts) = 2 /\ m.parts[2].t = "notjson")

MalformedIsRecoverable ==
    [][(Malformed(msg') /\ Receive(msg'))
          => /\ launcher' = "recv"
             /\ children' = children
             /\ processes' = processes
             /\ spawned' = spawned]_vars

(***************************************************************************)
(* C6: an event whose interface name is absent or empty starts no worker   *)
(* and does not end the launcher, whatever its other fields.               *)
(***************************************************************************)
InterfaceAbsentOrEmpty(m) ==
    /\ m.utf8
    /\ Len(m.parts) = 2
    /\ m.parts[2].t = "obj"
    /\ \/ m.parts[2].v["InterfaceName"].t \in {"absent", "none"}
       \/ m.parts[2].v["InterfaceName"] = IfEmpty

NoInterfaceIsNoMatch ==
    [][(InterfaceAbsentOrEmpty(msg') /\ Receive(msg'))
          => /\ launcher' = "recv"
             /\ children' = children
             /\ processes' = processes
             /\ spawned' = spawned]_vars

(***************************************************************************)
(* C7: a worker started with --uncompressed never runs the compression     *)
(* tool.                                                                   *)
(***************************************************************************)
UncompressedNeverCompresses == (~COMPRESS) => ~xz_invoked

(***************************************************************************)
(* C8: wherever the worker is killed, a file under a final artifact name   *)
(* is complete; a ".tmp" file may be partial.                              *)
(***************************************************************************)
FinalNeverPartial ==
    \A k \in DOMAIN final_dir : (k[2] = FALSE) => final_dir[k] = FileChunks

\* C8 as stated: every file of the results directory, ".tmp" or final, is
\* complete
EveryPublishedFileComplete ==
    \A k \in DOMAIN final_dir : final_dir[k] = FileChunks

\* killed during a copy, after another artifact was published
KilledDuringCopy ==
    /\ wpc = "killed"
    /\ \E k \in DOMAIN final_dir : k[2] = TRUE /\ final_dir[k] < FileChunks
    /\ \E k \in DOMAIN final_dir : k[2] = FALSE /\ final_dir[k] = FileChunks

(***************************************************************************)
(* C9: the loop ends only by the loop condition finding the stop flag set  *)
(* at the top of the loop; setting the flag moves the worker nowhere and   *)
(* touches no file, and the top of the loop is reached again only through  *)
(* a sleep, so a cycle in progress runs on to the end of its sleep.        *)
(***************************************************************************)
NonPreemptiveShutdown ==
    [][/\ (wpc' = "exited" /\ wpc # "exited") => (wpc = "top" /\ ~RUNNING)
       /\ (RUNNING' # RUNNING)
             => (~RUNNING' /\ wpc' = wpc /\ tmp_dir' = tmp_dir
                 /\ final_dir' = final_dir /\ todo' = todo /\ cur' = cur)
       /\ (wpc' = "top" /\ wpc # "top") => wpc \in {"sleep", "sleep_error"}
       /\ (~RUNNING /\ wpc \notin {"top", "exited"})
             => wpc' \notin {"exited"}]_vars

\* the flag was set before the measurement; the cycle published and slept,
\* and the worker then left the loop
ExitedAfterFullCycle ==
    /\ wpc = "exited"
    /\ ~RUNNING
    /\ measures_after_stop = 1
    /\ tmp_dir = {}
    /\ \E k \in DOMAIN final_dir : k[2] = FALSE /\ final_dir[k] = FileChunks

(***************************************************************************)
(* C10: once the stop flag is set the worker eventually ends, every step   *)
(* and sleep terminating; at most one measurement is begun with the flag   *)
(* set, and a top-of-loop check that finds the flag set begins no cycle.   *)
(***************************************************************************)
BoundedShutdown ==
    /\ [](measures_after_stop <= 1)
    /\ [][(wpc = "top" /\ ~RUNNING) => wpc' \in {"top", "exited", "killed"}]_vars
    /\ (~RUNNING) ~> (wpc \in {"exited", "killed"})

\* the worker left the loop after the one cycle admitted before the flag
ExitedAfterOneMoreCycle ==
    /\ wpc = "exited"
    /\ measures_after_stop = 1
    /\ cycle = 1

(***************************************************************************)
(* C11: a cycle that raised in any of its steps sleeps SLEEP_ON_ERROR and  *)
(* never the interval, a cycle that raised nowhere sleeps the interval and *)
(* never SLEEP_ON_ERROR, and a cycle that has ended has slept exactly      *)
(* once.                                                                   *)
(***************************************************************************)
BackoffProperty ==
    /\ Len(hist.sleeps) <= 1
    /\ hist.failed =>
          \A i \in 1..Len(hist.sleeps) : hist.sleeps[i] = "backoff"
    /\ ~hist.failed =>
          \A i \in 1..Len(hist.sleeps) : hist.sleeps[i] = "interval"
    /\ (wpc \in {"top", "exited"} /\ cycle >= 1) => Len(hist.sleeps) = 1
    /\ wpc = "sleep_error" => hist.failed
    /\ wpc = "sleep" => ~hist.failed

\* the second cycle raised, after a first cycle that did not, and has slept
\* its one sleep
FailedCycleSleptBackoff ==
    /\ wpc = "top"
    /\ cycle = 2
    /\ hist.failed
    /\ ~hist.prev_failed
    /\ hist.sleeps = <<"backoff">>

(***************************************************************************)
(* C12: an exception in a cycle takes the worker to the sleep of           *)
(* SLEEP_ON_ERROR and from there to the top of the loop, where, the stop   *)
(* flag not being set, the next cycle begins with the interface            *)
(* resolution; the loop is left only with the stop flag set, however many  *)
(* cycles have failed.                                                     *)
(***************************************************************************)
FailedCycleRetries ==
    [][/\ (hist'.failed /\ ~hist.failed) => wpc' = "sleep_error"
       /\ (wpc = "sleep_error" /\ wpc' # wpc) => wpc' \in {"top", "killed"}
       /\ (wpc = "top" /\ hist.failed /\ RUNNING /\ wpc' # wpc)
             => wpc' \in {"resolve", "killed"}
       /\ (hist.failed /\ wpc' = "exited" /\ wpc # "exited")
             => (wpc = "top" /\ ~RUNNING)]_vars

\* the first cycle failed; the worker slept, resolved the interface again
\* and is about to run the measurement of the second cycle
RetriedAfterFailedCycle ==
    /\ wpc = "measure"
    /\ cycle = 2
    /\ hist.prev_failed
    /\ RUNNING

\* the step handles message m: it sets msg to another message, which only
\* Receive does, or it is a step of Receive(m)
Handles(m) == msg' # msg \/ Receive(m)

(***************************************************************************)
(* C13: an event whose IMSIMCCMNC is not the configured mcc followed by    *)
(* the configured mnc is not selected, whatever its other fields: the      *)
(* launcher goes on receiving, starts no process and leaves the mapping    *)
(* as it is, also when IMSIMCCMNC and NWMCCMNC differ.                     *)
(***************************************************************************)
ForeignSubscriberIsNoMatch ==
    [][(IsEvent(msg') /\ ~SubscriberIsHome(msg') /\ Handles(msg'))
          => /\ launcher' = "recv"
             /\ children' = children
             /\ processes' = processes
             /\ spawned' = spawned
             /\ observed_exit' = observed_exit]_vars

\* an event of another subscriber network, with an interface, an accepted
\* ICCID and a serving network that differs, was handled without effect
ForeignRoamingEventIgnored ==
    /\ IsEvent(msg)
    /\ ~SubscriberIsHome(msg)
    /\ HasInterface(msg)
    /\ SimMatches(msg)
    /\ Roaming(msg)
    /\ launcher = "recv"
    /\ spawned = 0

(***************************************************************************)
(* C14: with no ICCID configured, the iteration on a message that carries  *)
(* an ICCID does to the launcher and its processes exactly what the        *)
(* iteration on the same message with any other ICCID would have done      *)
(* from the same state.                                                    *)
(***************************************************************************)
HasSim(m) ==
    /\ m.utf8
    /\ Len(m.parts) = 2
    /\ m.parts[2].t = "obj"
    /\ m.parts[2].v["ICCID"].t # "absent"
WithSim(m, v) == [m EXCEPT !.parts[2].v["ICCID"] = v]

SimWildcard ==
    [][(iccid.t = "none" /\ HasSim(msg') /\ Handles(msg'))
          => \A v \in {Iccid1, Iccid2} \ {Field(msg', "ICCID")} :
                Decide(WithSim(msg', v))]_vars

\* no ICCID is configured and a worker was started on an event of the
\* second ICCID
StartedOnAnySim ==
    /\ iccid.t = "none"
    /\ MatchingEvent(msg)
    /\ Field(msg, "ICCID") = Iccid2
    /\ spawned = 1
    /\ TrackedAlive
    /\ children[1].iface = Field(msg, "InterfaceName")

(***************************************************************************)
(* C15: a message whose topic does not both begin with the segments        *)
(* MONROE.META.DEVICE.MODEM and end with the segment UPDATE has no effect, *)
(* whatever its payload: the launcher goes on receiving, starts no process *)
(* and leaves the mapping as it is.                                        *)
(***************************************************************************)
OtherTopic(m) ==
    /\ m.utf8
    /\ Len(m.parts) >= 1
    /\ LET tp == m.parts[1].v IN
         ~(/\ Len(tp) > Len(TopicPrefix)
           /\ SubSeq(tp, 1, Len(TopicPrefix)) = TopicPrefix
           /\ tp[Len(tp)] = "UPDATE")

TopicFilter ==
    [][(OtherTopic(msg') /\ Handles(msg'))
          => /\ launcher' = "recv"
             /\ children' = children
             /\ processes' = processes
             /\ spawned' = spawned
             /\ observed_exit' = observed_exit]_vars

\* the payload of a roaming event was handled under a modem topic that is
\* not an UPDATE, and the launcher still receives
RoamingPayloadUnderOtherTopic ==
    /\ msg.utf8
    /\ msg.parts = <<TopicConnectivity, RoamingObject>>
    /\ launcher = "recv"
    /\ spawned = 0

(***************************************************************************)
(* C16: an UPDATE message whose JSON object lacks one or more of the four  *)
(* fields has no effect on the launcher, its processes and the mapping;    *)
(* and after every iteration each name of the loop body holds None or the  *)
(* value read from the message of that iteration, so that nothing read     *)
(* from a message is there when a later message is decided on.             *)
(***************************************************************************)
LacksField(m) ==
    /\ m.utf8
    /\ Len(m.parts) = 2
    /\ m.parts[1] = TopicUpdate
    /\ m.parts[2].t = "obj"
    /\ \E f \in FieldNames : m.parts[2].v[f].t = "absent"

\* the value name n takes when it is read from message m, None when m
\* has no such value
CarriesField(m, f) ==
    /\ Len(m.parts) = 2
    /\ m.parts[2].t = "obj"
    /\ m.parts[2].v[f].t # "absent"
ReadFrom(m, n) ==
    CASE n = "topic" -> IF Len(m.parts) >= 1 THEN m.parts[1] ELSE PyNone
      [] n = "metadata" ->
            IF Len(m.parts) = 2 /\ m.parts[2].t # "notjson"
            THEN m.parts[2] ELSE PyNone
      [] n = "metadata_if" ->
            IF CarriesField(m, "InterfaceName")
            THEN Field(m, "InterfaceName") ELSE PyNone
      [] n = "metadata_imsi_mcc_mnc" ->
            IF CarriesField(m, "IMSIMCCMNC")
            THEN str(Field(m, "IMSIMCCMNC")) ELSE PyNone
      [] n = "metadata_nw_mcc_mnc" ->
            IF CarriesField(m, "NWMCCMNC")
            THEN str(Field(m, "NWMCCMNC")) ELSE PyNone
      [] n = "metadata_iccid" ->
            IF CarriesField(m, "ICCID")
            THEN str(Field(m, "ICCID")) ELSE PyNone
      [] n = "metadata_mcc" ->
            IF CarriesField(m, "IMSIMCCMNC")
            THEN SliceTo3(str(Field(m, "IMSIMCCMNC"))) ELSE PyNone
      [] n = "metadata_mnc" ->
            IF CarriesField(m, "IMSIMCCMNC")
            THEN SliceFrom3(str(Field(m, "IMSIMCCMNC"))) ELSE PyNone

MissingFieldIsRecoverable ==
    /\ [][(LacksField(msg') /\ Handles(msg'))
             => /\ launcher' = "recv"
                /\ children' = children
                /\ processes' = processes
                /\ spawned' = spawned
                /\ observed_exit' = observed_exit]_vars
    /\ [](\A n \in DOMAIN NoLocals :
             locals[n].t # "none" => locals[n] = ReadFrom(msg, n))

\* a worker was started and has ended; an event of the home network that
\* lacks only the ICCID was then handled: no restart, and the interface
\* read from it is all the loop body holds of its fields
MissingSimAfterWorkerEnded ==
    /\ LacksField(msg)
    /\ Field(msg, "InterfaceName") = IfWwan0
    /\ Field(msg, "IMSIMCCMNC") = PyInt(24201)
    /\ Field(msg, "NWMCCMNC") = Home
    /\ launcher = "recv"
    /\ spawned = 1
    /\ measurement_id \in DOMAIN processes
    /\ ~TrackedAlive
    /\ locals.metadata_if = IfWwan0
    /\ locals.metadata_iccid = PyNone

(***************************************************************************)
(* C19: a matching event that names another interface than the one the     *)
(* live tracked worker was started with changes neither the processes nor  *)
(* the mapping; and no step changes the arguments a process was started    *)
(* with or removes a process that runs, so the worker runs on its          *)
(* interface until it ends by itself.                                      *)
(***************************************************************************)
InterfaceChangeIgnored ==
    /\ [][(/\ MatchingEvent(msg')
           /\ TrackedAlive
           /\ children[processes[measurement_id]].iface
                 # Field(msg', "InterfaceName")
           /\ Receive(msg'))
             => /\ children' = children
                /\ processes' = processes
                /\ spawned' = spawned
                /\ launcher' = "recv"]_vars
    /\ [][\A p \in DOMAIN children :
             /\ Alive(p) => p \in DOMAIN children'
             /\ p \in DOMAIN children'
                   => /\ children'[p].iface = children[p].iface
                      /\ children'[p].id = children[p].id]_vars

\* the worker started on wwan0 runs after an event for wwan1 was handled
StillOnFirstInterface ==
    /\ MatchingEvent(msg)
    /\ Field(msg, "InterfaceName") = IfWwan1
    /\ TrackedAlive
    /\ spawned = 1
    /\ children[1].iface = IfWwan0

(***************************************************************************)
(* C17: a cycle that has come to the sleep of the interval, the tool       *)
(* having written its two files and every xz run and every step of         *)
(* safe_copy_file_to_dir having succeeded, has both files of the cycle     *)
(* complete under their final .xz names in the results directory, no .tmp  *)
(* file of theirs there, and neither file, compressed or not, in the       *)
(* staging directory.                                                      *)
(***************************************************************************)
SuccessfulCyclePublished ==
    (wpc = "sleep" \/ (wpc \in {"top", "exited"} /\ cycle >= 1 /\ ~hist.failed))
       => \A k \in Kinds :
             LET a == Artifact(k, cycle)
                 z == [a EXCEPT !.xz = TRUE]
             IN  /\ <<z, FALSE>> \in DOMAIN final_dir
                 /\ final_dir[<<z, FALSE>>] = FileChunks
                 /\ <<z, TRUE>> \notin DOMAIN final_dir
                 /\ a \notin tmp_dir
                 /\ z \notin tmp_dir

\* the first cycle has published its two files and sleeps the interval
FirstCyclePublished ==
    /\ wpc = "sleep"
    /\ cycle = 1
    /\ tmp_dir = {}
    /\ DOMAIN final_dir =
          {<<[kind |-> k, ts |-> 1, xz |-> TRUE], FALSE>> : k \in Kinds}

(***************************************************************************)
(* C18: the files listed for compression are all the files of the staging  *)
(* directory, and the second loop begins only when xz has been run on each *)
(* of them.  A publish step that raises leaves its .xz file staged.  From  *)
(* a state in which a .xz file is staged before the files are listed, or   *)
(* is among the listed files, every step leads to such a state again or    *)
(* ends the process, and writes nothing to the results directory: the      *)
(* second loop is not reached, and every cycle that ends has failed.       *)
(***************************************************************************)
Poisoned ==
    \/ /\ wpc \in {"top", "resolve", "measure", "sleep_error"}
       /\ \E f \in tmp_dir : f.xz
    \/ /\ wpc = "compress"
       /\ \E f \in todo : f.xz

LeftoverPoisonsLaterCycles ==
    /\ [][/\ (wpc = "measure" /\ wpc' = "compress") => todo' = tmp_dir'
          /\ (wpc = "compress" /\ wpc' = "publish") => todo = {}
          /\ (wpc \in {"copy2", "copy2_write", "move", "remove"}
                 /\ wpc' = "sleep_error")
                => (cur.xz /\ cur \in tmp_dir' /\ Poisoned')
          /\ Poisoned
                => /\ Poisoned' \/ wpc' \in {"exited", "killed"}
                   /\ final_dir' = final_dir
                   /\ {f \in tmp_dir : f.xz} \subseteq tmp_dir']_vars
    /\ []((wpc \in {"top", "exited"} /\ \E f \in tmp_dir : f.xz)
             => hist.failed)

\* the copy of a .xz file failed in the first cycle and the file stayed
\* staged; in the second cycle xz compressed the scalar file and then
\* failed, and nothing of the second cycle is in the results directory
SecondCycleFailedOnLeftover ==
    /\ wpc = "sleep_error"
    /\ cycle = 2
    /\ [kind |-> "vector", ts |-> 1, xz |-> TRUE] \in tmp_dir
    /\ <<[kind |-> "vector", ts |-> 1, xz |-> TRUE], TRUE>>
          \in DOMAIN final_dir
    /\ [kind |-> "scalar", ts |-> 2, xz |-> TRUE] \in tmp_dir
    /\ [kind |-> "vector", ts |-> 2, xz |-> FALSE] \in tmp_dir
    /\ \A k \in DOMAIN final_dir : k[1].ts = 1

(***************************************************************************)
(* C20: a .xz file leaves the staging directory only when the file of its  *)
(* final name is complete in the results directory, and a complete file of *)
(* a final name stays complete; so in every state, that of a killed worker *)
(* included, a file that was staged for publishing is complete in one of   *)
(* the two directories.                                                    *)
(***************************************************************************)
PublishNeverLoses ==
    [][/\ \A f \in tmp_dir :
             (f.xz /\ f \notin tmp_dir')
                => /\ <<f, FALSE>> \in DOMAIN final_dir
                   /\ final_dir[<<f, FALSE>>] = FileChunks
       /\ \A k \in DOMAIN final_dir :
             (k[2] = FALSE /\ final_dir[k] = FileChunks)
                => /\ k \in DOMAIN final_dir'
                   /\ final_dir'[k] = FileChunks]_vars

\* the worker was killed after the source of a published file was removed
KilledAfterRemove ==
    /\ wpc = "killed"
    /\ \E k \in DOMAIN final_dir :
          /\ k[2] = FALSE
          /\ final_dir[k] = FileChunks
          /\ k[1] \notin tmp_dir
    /\ \E f \in tmp_dir : f.xz

(***************************************************************************)
(* C21: the step in which the launcher exits on a roaming event changes no *)
(* process and not the mapping, so a worker started on an earlier event    *)
(* runs on; after the exit no step starts or removes a process or changes  *)
(* the arguments of one, and a process ends only by itself.                *)
(***************************************************************************)
RoamingExitLeavesWorkers ==
    /\ [][(launcher = "recv" /\ launcher' = "exit1")
             => /\ children' = children
                /\ processes' = processes
                /\ \A p \in DOMAIN children : Alive(p) => Alive(p)']_vars
    /\ [][launcher = "exit1"
             => /\ launcher' = "exit1"
                /\ processes' = processes
                /\ spawned' = spawned
                /\ DOMAIN children' = DOMAIN children
                /\ \A p \in DOMAIN children :
                      /\ children'[p].iface = children[p].iface
                      /\ children'[p].id = children[p].id
                      /\ ~Alive(p) => children'[p] = children[p]]_vars

\* the launcher has exited on a roaming event and the worker it had started
\* on an earlier event runs
WorkerOutlivesLauncher ==
    /\ RoamingEvent(msg)
    /\ launcher = "exit1"
    /\ spawned = 1
    /\ Alive(1)
    /\ processes[measurement_id] = 1

====
